---- MODULE Spec2Model ----
(***************************************************************************)
(* SensorDataManager of app_enviro.py: the bounded per-metric deques, the  *)
(* lock, the polling thread (polling_loop / read_sensors / add_sample),    *)
(* and the caller-side operations start(), stop() and get_data().          *)
(* Every Python statement that another thread can observe is one step.     *)
(***************************************************************************)
EXTENDS Integers, Sequences, FiniteSets, TLC

\* ---------------------------------------------------------------- bounds
\* capacity of every deque (SensorDataManager(max_samples=...))
max_samples == 2
\* total number of successful sensor reads (hence add_sample calls)
MaxCalls == 3

\* SensorDataManager(..., polling_interval=60), in seconds
polling_interval == 60

\* Thread objects the process may create, in the order start() creates them
ThreadOrder == << "t1", "t2" >>
Threads == {ThreadOrder[i] : i \in 1..Len(ThreadOrder)}

\* the threads that call the API: the main thread of `__main__` (start, and
\* stop in its finally), a request thread of the Flask routes (get_data), and
\* a further thread that calls start() concurrently with the main thread
Callers == {"main", "web", "aux"}

\* Python's None for a scalar reading, and for a dict-valued one
None == 0 - 1
NoneDict == [none |-> TRUE]
IsNoneDict(d) == DOMAIN d = {"none"}

\* ------------------------------------------------------------ the buffers
\* the twelve deques of __init__, in the order add_sample appends to them
\* and get_data copies them
Fields ==
    << "timestamps", "temperatures", "pressures", "humidities",
       "light_levels", "proximities", "gas_oxidising", "gas_reducing",
       "gas_nh3", "pm1", "pm2_5", "pm10" >>
FieldSet == {Fields[i] : i \in 1..Len(Fields)}

\* data[...] key appended to Fields[i], i >= 2 (add_sample)
Keys ==
    << "temperature", "pressure", "humidity", "light", "proximity",
       "gas_oxidising", "gas_reducing", "gas_nh3", "pm1", "pm2_5", "pm10" >>
KeySet == {Keys[i] : i \in 1..Len(Keys)}

EmptyBuffers == [f \in FieldSet |-> << >>]

\* deque(maxlen=max_samples).append(x): a full deque drops its left end
DequeAppendNoEvict(q, x) == Append(q, x)
DequeAppendLeft(q, x) ==
    IF Len(q) >= max_samples THEN << x >> \o SubSeq(q, 1, Len(q) - 1) ELSE << x >> \o q
DequeAppendDropNewest(q, x) == IF Len(q) >= max_samples THEN q ELSE Append(q, x)
DequeAppend(q, x) ==
    IF Len(q) >= max_samples THEN Append(Tail(q), x) ELSE Append(q, x)

\* ------------------------------------------------------------ the sensors
\* dict.get(key, default)
Get(d, k, default) == IF k \in DOMAIN d THEN d[k] ELSE default
\* `x or {}` for a dict-or-None x
OrEmpty(d) == IF IsNoneDict(d) \/ DOMAIN d = {} THEN << >> ELSE d

\* EnviroSensors.read_all(): the five scalar reads return a number or None
\* (their except branches), read_gas and read_particulates a complete dict or
\* None
RawReading(v, scalar, gas, pm) ==
    [temperature |-> scalar, pressure |-> v, humidity |-> v, light |-> v,
     proximity |-> v,
     gas |-> IF gas THEN [oxidising |-> v, reducing |-> v, nh3 |-> v]
                    ELSE NoneDict,
     particulates |-> IF pm THEN [pm1 |-> v, pm2_5 |-> v, pm10 |-> v]
                            ELSE NoneDict]
\* the k-th reading the hardware delivers: the value 10 * k everywhere, and
\* on every second reading the BME280, gas and PMS5003 reads have failed
read_all(k) ==
    IF k % 2 = 0 THEN RawReading(10 * k, None, FALSE, FALSE)
                 ELSE RawReading(10 * k, 10 * k, TRUE, TRUE)

\* SensorDataManager.read_sensors(): the try body
read_sensors(raw) ==
    LET gas == OrEmpty(Get(raw, "gas", NoneDict))
        pm  == OrEmpty(Get(raw, "particulates", NoneDict))
    IN  [temperature   |-> Get(raw, "temperature", 0),
         pressure      |-> Get(raw, "pressure", 0),
         humidity      |-> Get(raw, "humidity", 0),
         light         |-> Get(raw, "light", 0),
         proximity     |-> Get(raw, "proximity", 0),
         gas_oxidising |-> Get(gas, "oxidising", 0),
         gas_reducing  |-> Get(gas, "reducing", 0),
         gas_nh3       |-> Get(gas, "nh3", 0),
         pm1           |-> Get(pm, "pm1", 0),
         pm2_5         |-> Get(pm, "pm2_5", 0),
         pm10          |-> Get(pm, "pm10", 0)]

\* `if data:` / `if not data:`
Truthy(d) == ~IsNoneDict(d) /\ DOMAIN d # {}

\* the '{:.1f}' fields of the logger.info call in polling_loop: formatting
\* None raises TypeError
LogKeys == {"temperature", "pressure", "humidity", "light", "pm2_5"}
LogRaises(d) == \E k \in LogKeys : d[k] = None

\* ------------------------------------------------------------------ state
VARIABLES
    running,    \* self.running
    thread,     \* self.thread: "none" or the Thread object last assigned
    lock,       \* self.lock: "free" or the thread / caller holding it
    buf,        \* the twelve deques, by field name
    clock,      \* datetime.now(): the number of timestamps handed out
    tpc,        \* per Thread object: its position in polling_loop
    tdata,      \* per polling thread: the local `data`
    tnow,       \* per polling thread: the local `now` of add_sample
    tidx,       \* per polling thread: index of the next append of add_sample
    cpc,        \* per caller: its position in start / stop / get_data
    cidx,       \* per caller: index of the next list(...) copy of get_data
    ctarget,    \* per caller: the Thread object stop() is joining
    snap,       \* per caller: the dict get_data is building / has returned
    added,      \* history: the samples of the completed add_sample calls that
                \* a bounded window keeps, oldest first
    phase,      \* history of the lifecycle calls: "idle" before any call;
                \* "stopping" once a stop() cleared the flag with no start() in
                \* progress, "stopped" once a stop() then returned;
                \* "restarting" during a start() called when "stopped",
                \* "resumed" once it started a thread; "active" otherwise
    soloStarts, \* history: the start() calls that returned (counted up to 2),
                \* or -1 once stop() was called or two start() calls overlapped
    outcomes,   \* history, kept where the sensor source is observed: the
                \* outcomes of the read_sensors calls, "ok" or "fail", in order
                \* (where the display is observed: those of the
                \* display_on_lcd calls, "shown" or "lcd_fault")
    config,     \* self.max_samples and self.polling_interval
    current,    \* app.py: self.current_temp, current_pressure, current_humidity
    api         \* the last call a client made directly (on the store, or a
                \* test script on the sensors): its name, its argument,
                \* whether it raised, and the dict the client holds from its
                \* last get_data() or read_all()

vars ==
    << running, thread, lock, buf, clock, tpc, tdata, tnow, tidx,
       cpc, cidx, ctarget, snap, added, phase, soloStarts, outcomes,
       config, current, api >>

threadVars == << tpc, tdata, tnow, tidx >>
callerVars == << cpc, cidx, ctarget, snap >>
history    == << phase, soloStarts, outcomes >>

\* __init__: the two attributes it stores
Constructed == [max_samples |-> max_samples, polling_interval |-> polling_interval]

\* app.py __init__: the current values for the LED display
NoCurrent == [temp |-> None, pressure |-> None, humidity |-> None]

\* list(deque): a new list object holding the deque's elements (and, for
\* comparison, the deque handed out as it is)
SharedDeque(q) == [own |-> FALSE, items |-> << >>]
ListCopy(q) == [own |-> TRUE, items |-> q]
\* no direct call made yet
NoCall ==
    [op |-> "none", arg |-> "none", raised |-> FALSE,
     ret |-> [f \in FieldSet |-> ListCopy(<< >>)]]

Init ==
    /\ running = FALSE
    /\ thread = "none"
    /\ lock = "free"
    /\ buf = EmptyBuffers
    /\ clock = 0
    /\ tpc = [t \in Threads |-> "unborn"]
    /\ tdata = [t \in Threads |-> NoneDict]
    /\ tnow = [t \in Threads |-> 0]
    /\ tidx = [t \in Threads |-> 0]
    /\ cpc = [c \in Callers |-> "idle"]
    /\ cidx = [c \in Callers |-> 0]
    /\ ctarget = [c \in Callers |-> "none"]
    /\ snap = [c \in Callers |-> EmptyBuffers]
    /\ added = << >>
    /\ phase = "idle"
    /\ soloStarts = 0
    /\ outcomes = << >>
    /\ config = Constructed
    /\ current = NoCurrent
    /\ api = NoCall

\* Thread objects whose polling_loop is executing
Live == {t \in Threads : tpc[t] \notin {"unborn", "created", "done"}}
\* the number of readings the sensors have delivered so far
Reads == clock + Cardinality({t \in Threads : tpc[t] = "add_sample"})
\* callers inside start()
Starting == {c \in Callers : cpc[c] \in {"start_check", "start_set", "start_new", "start_go"}}

\* the last max_samples elements of a history
Window(s) ==
    IF Len(s) <= max_samples THEN s ELSE SubSeq(s, Len(s) - max_samples + 1, Len(s))

\* ------------------------------------------------------- the polling thread
\* a loop test that does not look at the flag (for comparison)
LoopCheckBlind(t) ==
    /\ tpc[t] = "check"
    /\ tpc' = [tpc EXCEPT ![t] = "read"]
    /\ UNCHANGED << config, api, current >>
    /\ UNCHANGED << running, thread, lock, buf, clock, tdata, tnow, tidx,
                    callerVars, added, history >>

\* polling_loop: `while self.running:`
LoopCheck(t) ==
    /\ tpc[t] = "check"
    /\ tpc' = [tpc EXCEPT ![t] = IF running THEN "read" ELSE "done"]
    /\ UNCHANGED << config, api, current >>
    /\ UNCHANGED << running, thread, lock, buf, clock, tdata, tnow, tidx,
                    callerVars, added, history >>

\* polling_loop: `data = self.read_sensors()` returns what read_all gave, and
\* `if data:` leads to the add_sample call
ReadOk(t) ==
    /\ tpc[t] = "read"
    /\ Reads < MaxCalls
    /\ LET data == read_sensors(read_all(Reads + 1))
       IN  /\ tdata' = [tdata EXCEPT ![t] = data]
           /\ tpc' = [tpc EXCEPT ![t] = IF Truthy(data) THEN "add_sample" ELSE "sleep"]
    /\ UNCHANGED << config, api, current >>
    /\ UNCHANGED << running, thread, lock, buf, clock, tnow, tidx,
                    callerVars, added, history >>

\* read_sensors: read_all raised, the except branch returns None; `if data:`
\* is false and the loop goes to time.sleep(self.polling_interval)
ReadFail(t) ==
    /\ tpc[t] = "read"
    /\ tdata' = [tdata EXCEPT ![t] = NoneDict]
    /\ tpc' = [tpc EXCEPT ![t] = IF Truthy(NoneDict) THEN "add_sample" ELSE "sleep"]
    /\ UNCHANGED << config, api, current >>
    /\ UNCHANGED << running, thread, lock, buf, clock, tnow, tidx,
                    callerVars, added, history >>

\* add_sample: `with self.lock:` waits for the lock
AddSampleUnlocked(t) == TRUE
AddSampleLock(t) == lock = "free"

\* add_sample: `if not data: return`, else `with self.lock:` is entered and
\* `now = datetime.now()` read
AddSampleEnter(t) ==
    /\ tpc[t] = "add_sample"
    /\ IF ~Truthy(tdata[t])
         THEN /\ tpc' = [tpc EXCEPT ![t] = "log"]
              /\ UNCHANGED << lock, clock, tnow, tidx >>
         ELSE /\ AddSampleLock(t)
              /\ lock' = IF lock = "free" THEN t ELSE lock
              /\ clock' = clock + 1
              /\ tnow' = [tnow EXCEPT ![t] = clock + 1]
              /\ tidx' = [tidx EXCEPT ![t] = 1]
              /\ tpc' = [tpc EXCEPT ![t] = "append"]
    /\ UNCHANGED << config, api, current >>
    /\ UNCHANGED << running, thread, buf, tdata, callerVars, added, history >>

\* add_sample: the next of the twelve appends; the last one leaves the
\* `with` block, which releases the lock
AppendNext(t) ==
    /\ tpc[t] = "append"
    /\ LET i == tidx[t]
           x == IF i = 1 THEN tnow[t] ELSE tdata[t][Keys[i - 1]]
       IN  /\ buf' = [buf EXCEPT ![Fields[i]] = DequeAppend(@, x)]
           /\ IF i = Len(Fields)
                THEN /\ lock' = IF lock = t THEN "free" ELSE lock
                     /\ tidx' = [tidx EXCEPT ![t] = 0]
                     /\ tpc' = [tpc EXCEPT ![t] = "log"]
                     /\ added' = Window(Append(added, [t |-> tnow[t], data |-> tdata[t]]))
                ELSE /\ tidx' = [tidx EXCEPT ![t] = i + 1]
                     /\ UNCHANGED << lock, tpc, added >>
    /\ UNCHANGED << config, api, current >>
    /\ UNCHANGED << running, thread, clock, tdata, tnow, callerVars, history >>

\* polling_loop: the logger.info call; a None among the formatted values
\* raises, and the except branch goes to time.sleep(5)
\* where an exception raised inside the try block takes the thread: the
\* `except Exception` branch, which logs it and calls time.sleep(5)
ExceptUncaught == "done"
ExceptBranch == "backoff"

LogSample(t) ==
    /\ tpc[t] = "log"
    /\ IF LogRaises(tdata[t])
         THEN /\ tpc' = [tpc EXCEPT ![t] = ExceptBranch]
              /\ tdata' = [tdata EXCEPT ![t] = NoneDict]
              /\ tnow' = [tnow EXCEPT ![t] = 0]
         ELSE /\ tpc' = [tpc EXCEPT ![t] = "display"]
              /\ UNCHANGED << tdata, tnow >>
    /\ UNCHANGED << config, api, current >>
    /\ UNCHANGED << running, thread, lock, buf, clock, tidx,
                    callerVars, added, history >>

\* polling_loop: self.sensors.display_on_lcd(display_data), which catches
\* every exception of its own
DisplayOnLcd(t) ==
    /\ tpc[t] = "display"
    /\ tpc' = [tpc EXCEPT ![t] = "sleep"]
    /\ tdata' = [tdata EXCEPT ![t] = NoneDict]
    /\ tnow' = [tnow EXCEPT ![t] = 0]
    /\ UNCHANGED << config, api, current >>
    /\ UNCHANGED << running, thread, lock, buf, clock, tidx,
                    callerVars, added, history >>

\* polling_loop: time.sleep(self.polling_interval) returns
SleepInterval(t) ==
    /\ tpc[t] = "sleep"
    /\ tpc' = [tpc EXCEPT ![t] = "check"]
    /\ UNCHANGED << config, api, current >>
    /\ UNCHANGED << running, thread, lock, buf, clock, tdata, tnow, tidx,
                    callerVars, added, history >>

\* polling_loop: time.sleep(5) of the except branch returns
SleepBackoff(t) ==
    /\ tpc[t] = "backoff"
    /\ tpc' = [tpc EXCEPT ![t] = "check"]
    /\ UNCHANGED << config, api, current >>
    /\ UNCHANGED << running, thread, lock, buf, clock, tdata, tnow, tidx,
                    callerVars, added, history >>


\* ------------------------------------------------------------------ start()
\* a caller invokes start()
CallStart(c) ==
    /\ cpc[c] = "idle"
    /\ cpc' = [cpc EXCEPT ![c] = "start_check"]
    /\ phase' = IF phase = "stopped" /\ Starting = {} THEN "restarting"
                ELSE IF phase = "resumed" THEN "resumed"
                ELSE "active"
    /\ soloStarts' = IF Starting = {} THEN soloStarts ELSE -1
    /\ UNCHANGED << config, api, current >>
    /\ UNCHANGED << running, thread, lock, buf, clock, threadVars,
                    cidx, ctarget, snap, added, outcomes >>

\* Thread objects not yet constructed, and the starts that will construct one
Unborn == {t \in Threads : tpc[t] = "unborn"}
Constructing == {c \in Callers : cpc[c] \in {"start_set", "start_new"}}

\* one more start() call has returned
Counted(n) == IF n \in {0, 1} THEN n + 1 ELSE n

\* start: `if not self.running:`
StartCheckNoFlag(c) == "start_set"
StartCheck(c) == IF running THEN "idle" ELSE "start_set"

StartTest(c) ==
    /\ cpc[c] = "start_check"
    /\ running \/ Cardinality(Constructing) < Cardinality(Unborn)
    /\ cpc' = [cpc EXCEPT ![c] = StartCheck(c)]
    /\ soloStarts' = IF StartCheck(c) = "idle" THEN Counted(soloStarts) ELSE soloStarts
    /\ UNCHANGED << config, api, current >>
    /\ UNCHANGED << running, thread, lock, buf, clock, threadVars,
                    cidx, ctarget, snap, added, phase, outcomes >>

\* start: `self.running = True`
StartSet(c) ==
    /\ cpc[c] = "start_set"
    /\ running' = TRUE
    /\ cpc' = [cpc EXCEPT ![c] = "start_new"]
    /\ UNCHANGED << config, api, current >>
    /\ UNCHANGED << thread, lock, buf, clock, threadVars,
                    cidx, ctarget, snap, added, history >>

\* start: `self.thread = Thread(target=self.polling_loop, daemon=True)`
StartNew(c) ==
    /\ cpc[c] = "start_new"
    /\ LET i == CHOOSE i \in 1..Len(ThreadOrder) :
                    /\ ThreadOrder[i] \in Unborn
                    /\ \A j \in 1..(i - 1) : ThreadOrder[j] \notin Unborn
           t == ThreadOrder[i]
       IN  /\ tpc' = [tpc EXCEPT ![t] = "created"]
           /\ thread' = t
    /\ cpc' = [cpc EXCEPT ![c] = "start_go"]
    /\ UNCHANGED << config, api, current >>
    /\ UNCHANGED << running, lock, buf, clock, tdata, tnow, tidx,
                    cidx, ctarget, snap, added, history >>

\* start: `self.thread.start()`, on whatever self.thread now refers to;
\* Thread.start raises RuntimeError on a thread started before
StartGo(c) ==
    /\ cpc[c] = "start_go"
    /\ IF tpc[thread] = "created"
         THEN /\ tpc' = [tpc EXCEPT ![thread] = "check"]
              /\ cpc' = [cpc EXCEPT ![c] = "idle"]
              /\ phase' = IF phase = "restarting" THEN "resumed" ELSE phase
              /\ soloStarts' = Counted(soloStarts)
         ELSE /\ cpc' = [cpc EXCEPT ![c] = "raise"]
              /\ UNCHANGED << tpc, phase, soloStarts >>
    /\ UNCHANGED << config, api, current >>
    /\ UNCHANGED << running, thread, lock, buf, clock, tdata, tnow, tidx,
                    cidx, ctarget, snap, added, outcomes >>

\* the RuntimeError of Thread.start / Thread.join leaves start() / stop()
Raise(c) ==
    /\ cpc[c] = "raise"
    /\ cpc' = [cpc EXCEPT ![c] = "idle"]
    /\ UNCHANGED << config, api, current >>
    /\ UNCHANGED << running, thread, lock, buf, clock, threadVars,
                    cidx, ctarget, snap, added, history >>


\* ------------------------------------------------------------------- stop()
\* what `self.running = False` stores
StopFlagKept == running
StopFlag == FALSE

\* a caller invokes stop(): `self.running = False`
CallStop(c) ==
    /\ cpc[c] = "idle"
    /\ running' = StopFlag
    /\ cpc' = [cpc EXCEPT ![c] = "stop_if"]
    /\ phase' = IF phase \in {"stopping", "stopped"} THEN phase
                ELSE IF Starting = {} THEN "stopping"
                ELSE "active"
    /\ soloStarts' = -1
    /\ UNCHANGED << config, api, current >>
    /\ UNCHANGED << thread, lock, buf, clock, threadVars,
                    cidx, ctarget, snap, added, outcomes >>

\* stop: `if self.thread:`
StopIf(c) ==
    /\ cpc[c] = "stop_if"
    /\ cpc' = [cpc EXCEPT ![c] = IF thread # "none" THEN "stop_join" ELSE "stop_cleanup"]
    /\ UNCHANGED << config, api, current >>
    /\ UNCHANGED << running, thread, lock, buf, clock, threadVars,
                    cidx, ctarget, snap, added, history >>

\* stop: `self.thread.join(timeout=5)` is called on whatever self.thread now
\* refers to; Thread.join raises RuntimeError on a thread not yet started
StopJoin(c) ==
    /\ cpc[c] = "stop_join"
    /\ IF tpc[thread] = "created"
         THEN /\ cpc' = [cpc EXCEPT ![c] = "raise"]
              /\ UNCHANGED ctarget
         ELSE /\ cpc' = [cpc EXCEPT ![c] = "stop_wait"]
              /\ ctarget' = [ctarget EXCEPT ![c] = thread]
    /\ UNCHANGED << config, api, current >>
    /\ UNCHANGED << running, thread, lock, buf, clock, threadVars,
                    cidx, snap, added, history >>

\* positions where a polling thread can stay longer than the join timeout:
\* the sensor read and the two sleeps
JoinWithoutTimeout == {}
Blocking == {"read", "sleep", "backoff"}

\* stop: join returns, because the thread ended or because 5 seconds passed
StopWait(c) ==
    /\ cpc[c] = "stop_wait"
    /\ tpc[ctarget[c]] \in Blocking \cup {"done"}
    /\ cpc' = [cpc EXCEPT ![c] = "stop_cleanup"]
    /\ ctarget' = [ctarget EXCEPT ![c] = "none"]
    /\ UNCHANGED << config, api, current >>
    /\ UNCHANGED << running, thread, lock, buf, clock, threadVars,
                    cidx, snap, added, history >>

\* stop: `self.sensors.cleanup()` (which catches its own exceptions) and
\* the return
StopCleanup(c) ==
    /\ cpc[c] = "stop_cleanup"
    /\ cpc' = [cpc EXCEPT ![c] = "idle"]
    /\ phase' = IF phase = "stopping" THEN "stopped" ELSE phase
    /\ UNCHANGED << config, api, current >>
    /\ UNCHANGED << running, thread, lock, buf, clock, threadVars,
                    cidx, ctarget, snap, added, soloStarts, outcomes >>


\* --------------------------------------------------------------- get_data()
\* a caller invokes get_data()
CallGetData(c) ==
    /\ cpc[c] = "idle"
    /\ cpc' = [cpc EXCEPT ![c] = "get_data"]
    /\ UNCHANGED << config, api, current >>
    /\ UNCHANGED << running, thread, lock, buf, clock, threadVars,
                    cidx, ctarget, snap, added, history >>

\* get_data: `with self.lock:` is entered
GetDataUnlocked(c) == TRUE
GetDataLock(c) == lock = "free"

GetDataEnter(c) ==
    /\ cpc[c] = "get_data"
    /\ GetDataLock(c)
    /\ lock' = IF lock = "free" THEN c ELSE lock
    /\ cidx' = [cidx EXCEPT ![c] = 1]
    /\ cpc' = [cpc EXCEPT ![c] = "copy"]
    /\ UNCHANGED << config, api, current >>
    /\ UNCHANGED << running, thread, buf, clock, threadVars,
                    ctarget, snap, added, history >>

\* the copies of get_data with a lock that is not released at the return
\* (for comparison)
CopyNextKeepLock(c) ==
    /\ cpc[c] = "copy"
    /\ LET i == cidx[c]
       IN  /\ snap' = [snap EXCEPT ![c][Fields[i]] = buf[Fields[i]]]
           /\ IF i = Len(Fields)
                THEN /\ cidx' = [cidx EXCEPT ![c] = 0]
                     /\ cpc' = [cpc EXCEPT ![c] = "hold"]
                ELSE /\ cidx' = [cidx EXCEPT ![c] = i + 1]
                     /\ UNCHANGED cpc
    /\ UNCHANGED << config, api, current >>
    /\ UNCHANGED << running, thread, lock, buf, clock, threadVars,
                    ctarget, added, history >>

\* get_data: the next of the twelve list(...) copies; the last one leaves
\* the `with` block and returns the dict
CopyNext(c) ==
    /\ cpc[c] = "copy"
    /\ LET i == cidx[c]
       IN  /\ snap' = [snap EXCEPT ![c][Fields[i]] = buf[Fields[i]]]
           /\ IF i = Len(Fields)
                THEN /\ lock' = IF lock = c THEN "free" ELSE lock
                     /\ cidx' = [cidx EXCEPT ![c] = 0]
                     /\ cpc' = [cpc EXCEPT ![c] = "hold"]
                ELSE /\ cidx' = [cidx EXCEPT ![c] = i + 1]
                     /\ UNCHANGED << lock, cpc >>
    /\ UNCHANGED << config, api, current >>
    /\ UNCHANGED << running, thread, buf, clock, threadVars,
                    ctarget, added, history >>

\* the caller is done with the dict get_data returned
DropData(c) ==
    /\ cpc[c] = "hold"
    /\ cpc' = [cpc EXCEPT ![c] = "idle"]
    /\ snap' = [snap EXCEPT ![c] = EmptyBuffers]
    /\ UNCHANGED << config, api, current >>
    /\ UNCHANGED << running, thread, lock, buf, clock, threadVars,
                    cidx, ctarget, added, history >>


\* ------------------------------------------------------------ specification
\* the deployed program: the main thread starts and stops the manager, the
\* request thread reads it
Next ==
    \/ \E t \in Threads : LoopCheck(t)
    \/ \E t \in Threads : ReadOk(t)
    \/ \E t \in Threads : ReadFail(t)
    \/ \E t \in Threads : AddSampleEnter(t)
    \/ \E t \in Threads : AppendNext(t)
    \/ \E t \in Threads : LogSample(t)
    \/ \E t \in Threads : DisplayOnLcd(t)
    \/ \E t \in Threads : SleepInterval(t)
    \/ \E t \in Threads : SleepBackoff(t)
    \/ CallStart("main")
    \/ StartTest("main")
    \/ StartSet("main")
    \/ StartNew("main")
    \/ StartGo("main")
    \/ CallStop("main")
    \/ StopIf("main")
    \/ StopJoin("main")
    \/ StopWait("main")
    \/ StopCleanup("main")
    \/ CallGetData("web")
    \/ GetDataEnter("web")
    \/ CopyNext("web")
    \/ DropData("web")

Spec == Init /\ [][Next]_vars

\* the same with start() also called from a second thread, where
\* Thread.start and Thread.join can raise
RaceNext ==
    \/ Next
    \/ CallStart("aux")
    \/ StartTest("aux")
    \/ StartSet("aux")
    \/ StartNew("aux")
    \/ StartGo("aux")
    \/ \E c \in {"main", "aux"} : Raise(c)

RaceSpec == Init /\ [][RaceNext]_vars

\* ------------------------------------------------- an observed sensor source
\* number of read_sensors calls that fail
MaxFails == 2

Oks == Cardinality({i \in 1..Len(outcomes) : outcomes[i] = "ok"})
Fails == Cardinality({i \in 1..Len(outcomes) : outcomes[i] = "fail"})

\* what read_sensors returns from its except branch: `return None`
ExceptReturnZeros == [k \in KeySet |-> 0]
ExceptReturn == NoneDict

\* polling_loop: `data = self.read_sensors()` returned a reading (as ReadOk),
\* and the outcome is recorded
ObservedReadOk(t) ==
    /\ tpc[t] = "read"
    /\ Reads < MaxCalls
    /\ LET data == read_sensors(read_all(Reads + 1))
       IN  /\ tdata' = [tdata EXCEPT ![t] = data]
           /\ tpc' = [tpc EXCEPT ![t] = IF Truthy(data) THEN "add_sample" ELSE "sleep"]
    /\ outcomes' = Append(outcomes, "ok")
    /\ UNCHANGED << config, api, current >>
    /\ UNCHANGED << running, thread, lock, buf, clock, tnow, tidx,
                    callerVars, added, phase, soloStarts >>

\* polling_loop: read_all raised inside read_sensors, whose except branch
\* returned None (as ReadFail), and the outcome is recorded
ObservedReadFail(t) ==
    /\ tpc[t] = "read"
    /\ Fails < MaxFails
    /\ LET data == ExceptReturn
       IN  /\ tdata' = [tdata EXCEPT ![t] = data]
           /\ tpc' = [tpc EXCEPT ![t] = IF Truthy(data) THEN "add_sample" ELSE "sleep"]
    /\ outcomes' = Append(outcomes, "fail")
    /\ UNCHANGED << config, api, current >>
    /\ UNCHANGED << running, thread, lock, buf, clock, tnow, tidx,
                    callerVars, added, phase, soloStarts >>

\* the store started by the main thread and not stopped, a request thread
\* calling get_data, and a sensor source whose every read may fail
FaultNext ==
    \/ \E t \in Threads : LoopCheck(t)
    \/ \E t \in Threads : ObservedReadOk(t)
    \/ \E t \in Threads : ObservedReadFail(t)
    \/ \E t \in Threads : AddSampleEnter(t)
    \/ \E t \in Threads : AppendNext(t)
    \/ \E t \in Threads : LogSample(t)
    \/ \E t \in Threads : DisplayOnLcd(t)
    \/ \E t \in Threads : SleepInterval(t)
    \/ \E t \in Threads : SleepBackoff(t)
    \/ CallStart("main")
    \/ StartTest("main")
    \/ StartSet("main")
    \/ StartNew("main")
    \/ StartGo("main")
    \/ CallGetData("web")
    \/ GetDataEnter("web")
    \/ CopyNext("web")
    \/ DropData("web")

FaultSpec == Init /\ [][FaultNext]_vars

\* the acquisition side of the program (the polling threads and the caller
\* of start() and stop()) with sensors that deliver a reading on every read,
\* under a fair scheduler: a thread that can take a step eventually takes
\* it, a call in progress continues, and a thread waiting for the lock gets
\* it if it is free again and again
LiveNext ==
    \/ \E t \in Threads : LoopCheck(t)
    \/ \E t \in Threads : ReadOk(t)
    \/ \E t \in Threads : AddSampleEnter(t)
    \/ \E t \in Threads : AppendNext(t)
    \/ \E t \in Threads : LogSample(t)
    \/ \E t \in Threads : DisplayOnLcd(t)
    \/ \E t \in Threads : SleepInterval(t)
    \/ \E t \in Threads : SleepBackoff(t)
    \/ CallStart("main")
    \/ StartTest("main")
    \/ StartSet("main")
    \/ StartNew("main")
    \/ StartGo("main")
    \/ CallStop("main")
    \/ StopIf("main")
    \/ StopJoin("main")
    \/ StopWait("main")
    \/ StopCleanup("main")

\* the steps of a polling thread that wait for nothing but the scheduler
Step(t) ==
    \/ LoopCheck(t)
    \/ ReadOk(t)
    \/ AppendNext(t)
    \/ LogSample(t)
    \/ DisplayOnLcd(t)
    \/ SleepInterval(t)
    \/ SleepBackoff(t)

Fairness ==
    /\ \A t \in Threads : WF_vars(Step(t)) /\ SF_vars(AddSampleEnter(t))
    /\ WF_vars(StartTest("main") \/ StartSet("main") \/ StartNew("main") \/ StartGo("main"))
    /\ WF_vars(StopIf("main") \/ StopJoin("main") \/ StopWait("main") \/ StopCleanup("main"))

LiveSpec == Init /\ [][LiveNext]_vars /\ Fairness

\* ------------------------------------------------------------- get_stats()
\* a Python call that ends in TypeError, and one that returned a value
TypeError == [raises |-> "TypeError"]
Raised(r) == DOMAIN r = {"raises"}
Value(v) == [value |-> v]

HasNone(values) == \E i \in 1..Len(values) : values[i] = None

RECURSIVE SeqMin(_)
SeqMin(values) ==
    IF Len(values) = 1 THEN values[1]
    ELSE LET m == SeqMin(Tail(values))
         IN  IF values[1] <= m THEN values[1] ELSE m

RECURSIVE SeqMax(_)
SeqMax(values) ==
    IF Len(values) = 1 THEN values[1]
    ELSE LET m == SeqMax(Tail(values))
         IN  IF values[1] >= m THEN values[1] ELSE m

RECURSIVE SeqSum(_)
SeqSum(values) ==
    IF values = << >> THEN 0 ELSE values[1] + SeqSum(Tail(values))

\* min(values) / max(values) of a non-empty list: a single element is
\* returned uncompared, any comparison that involves None raises TypeError
PyMin(values) ==
    IF Len(values) > 1 /\ HasNone(values) THEN TypeError ELSE Value(SeqMin(values))
PyMax(values) ==
    IF Len(values) > 1 /\ HasNone(values) THEN TypeError ELSE Value(SeqMax(values))
\* sum(values): 0 + None raises TypeError
PySum(values) ==
    IF HasNone(values) THEN TypeError ELSE Value(SeqSum(values))
\* total / count, a true division: kept as the fraction; a zero count
\* raises ZeroDivisionError
PyDiv(total, count) ==
    IF count = 0 THEN [raises |-> "ZeroDivisionError"]
    ELSE Value([num |-> total, den |-> count])

\* calc_stats(values) of get_stats
calc_stats(values) ==
    IF values = << >>
    THEN Value([current |-> 0, min |-> 0, max |-> 0, avg |-> [num |-> 0, den |-> 1]])
    ELSE LET mn == PyMin(values)
             mx == PyMax(values)
             sm == PySum(values)
         IN  IF Raised(mn) THEN mn
             ELSE IF Raised(mx) THEN mx
             ELSE IF Raised(sm) THEN sm
             ELSE LET avg == PyDiv(sm.value, Len(values))
                  IN  IF Raised(avg) THEN avg
                      ELSE Value([current |-> values[Len(values)],
                                  min |-> mn.value, max |-> mx.value,
                                  avg |-> avg.value])

\* the deque whose statistics get_stats reports under the key k
StatsField(k) == Fields[(CHOOSE i \in 1..Len(Keys) : Keys[i] = k) + 1]

\* datetime.isoformat()
IsoFormat(t) == [iso |-> t]

\* the "no data" answer of get_stats
NoData == [message |-> "No data available yet", sample_count |-> 0]

\* `if not data['temperatures']:`
StatsEmptyNever(data) == FALSE
StatsEmpty(data) == data["temperatures"] = << >>

\* get_stats() on the dict `data` that sensor_manager.get_data() returned
get_stats(data) ==
    IF StatsEmpty(data) THEN NoData
    ELSE LET per == [k \in KeySet |-> calc_stats(data[StatsField(k)])]
         IN  IF \E k \in KeySet : Raised(per[k])
             THEN per[CHOOSE k \in KeySet : Raised(per[k])]
             ELSE [metrics |-> [k \in KeySet |-> per[k].value],
                   sample_count |-> Len(data["timestamps"]),
                   max_samples |-> max_samples,
                   first_sample |-> IF data["timestamps"] # << >>
                                    THEN IsoFormat(data["timestamps"][1])
                                    ELSE [iso |-> None],
                   last_sample |-> IF data["timestamps"] # << >>
                                   THEN IsoFormat(data["timestamps"][Len(data["timestamps"])])
                                   ELSE [iso |-> None]]

\* ------------------------------------------------------------ verification
FieldIndex(f) == CHOOSE i \in 1..Len(Fields) : Fields[i] = f
\* what a sample [t, data] contributes to the deque of field f
Project(f, s) == IF f = "timestamps" THEN s.t ELSE s.data[Keys[FieldIndex(f) - 1]]
\* the deques that hold exactly the samples of the history h
Expected(h) == [f \in FieldSet |-> [i \in 1..Len(h) |-> Project(f, h[i])]]
\* polling threads between the first and the last append of add_sample
Appending == {t \in Threads : tpc[t] = "append"}
\* get_data returns to caller c in this step
Returns(c) == cpc[c] = "copy" /\ cpc'[c] = "hold"

\* C1: every dict get_data returns has all twelve sequences of one length,
\* and is the buffer as it stands between two add_sample calls: at the
\* return no add_sample is part-way through its appends and the dict equals
\* the deques, which hold whole samples only.
C1_SnapshotAtomic ==
    /\ [](\A c \in Callers : cpc[c] = "hold" =>
            \A f, g \in FieldSet : Len(snap[c][f]) = Len(snap[c][g]))
    /\ [][\A c \in Callers : Returns(c) =>
            /\ Appending = {}
            /\ snap'[c] = buf'
            /\ buf' = Expected(added')]_vars

\* a request thread is part-way through its copies of a non-empty buffer
\* while a polling thread is inside add_sample, waiting for the lock
C1_Witness ==
    \E c \in Callers, t \in Threads :
        /\ cpc[c] = "copy" /\ cidx[c] > 1
        /\ tpc[t] = "add_sample"
        /\ Len(buf["timestamps"]) >= 1

\* C2: in every reachable state each of the twelve deques, and each sequence
\* of a dict get_data built from them, holds at most max_samples entries.
C2_Bounded ==
    /\ \A f \in FieldSet : Len(buf[f]) <= max_samples
    /\ \A c \in Callers : \A f \in FieldSet : Len(snap[c][f]) <= max_samples

\* more than max_samples samples were added, around a stop() and a second
\* start(), and every deque is full
C2_Witness ==
    /\ clock > max_samples
    /\ Appending = {}
    /\ \A f \in FieldSet : Len(buf[f]) = max_samples
    /\ tpc["t2"] # "unborn"

\* C3: while no more than max_samples add_sample calls were made, the dict
\* get_data returns has sequences whose length is the number of calls and
\* whose i-th entries are those of the i-th completed call.
C3_InsertionOrder ==
    [][\A c \in Callers : (Returns(c) /\ clock <= max_samples) =>
          \A f \in FieldSet :
              /\ Len(snap'[c][f]) = clock
              /\ Len(added) = clock
              /\ \A i \in 1..clock : snap'[c][f][i] = Project(f, added[i])]_vars

\* get_data returned two samples, none evicted, the readings 10 and 20 in
\* the order they were added
C3_Witness ==
    \E c \in Callers :
        /\ cpc[c] = "hold"
        /\ snap[c]["timestamps"] = << 1, 2 >>
        /\ snap[c]["pressures"] = << 10, 20 >>

\* C4: once more than max_samples add_sample calls were made, the dict
\* get_data returns has sequences of exactly max_samples entries, those of
\* the max_samples most recent calls, oldest first; and an append to a full
\* deque drops its first entry and keeps the others in place.
C4_KeepsMostRecent ==
    /\ [][\A c \in Callers : (Returns(c) /\ clock > max_samples) =>
            \A f \in FieldSet :
                /\ Len(snap'[c][f]) = max_samples
                /\ Len(added) = max_samples
                /\ \A i \in 1..max_samples :
                      /\ snap'[c]["timestamps"][i] = clock - max_samples + i
                      /\ snap'[c][f][i] = Project(f, added[i])]_vars
    /\ [][\A f \in FieldSet : buf'[f] # buf[f] =>
            /\ Len(buf'[f]) >= 1
            /\ SubSeq(buf'[f], 1, Len(buf'[f]) - 1) =
                  IF Len(buf[f]) = max_samples THEN Tail(buf[f]) ELSE buf[f]]_vars

\* get_data returned a full window whose oldest sample is not the first one
\* added
C4_Witness ==
    \E c \in Callers :
        /\ cpc[c] = "hold"
        /\ Len(snap[c]["timestamps"]) = max_samples
        /\ snap[c]["timestamps"][1] > 1

\* C5: the deques stay in lock step: at most one add_sample is appending,
\* the fields it has already appended to hold the new sample at the same
\* index, the others do not yet; and in every dict get_data returns, the
\* entries at one index are the timestamp and the values of one add_sample
\* call.
C5_LockStep ==
    /\ [](/\ Cardinality(Appending) <= 1
          /\ \A f \in FieldSet :
                buf[f] =
                  IF \E t \in Appending : FieldIndex(f) < tidx[t]
                  THEN LET t == CHOOSE t \in Appending : TRUE
                       IN  Expected(Window(Append(added,
                               [t |-> tnow[t], data |-> tdata[t]])))[f]
                  ELSE Expected(added)[f])
    /\ [][\A c \in Callers : Returns(c) =>
            \A i \in 1..Len(snap'[c]["timestamps"]) :
                \E k \in 1..Len(added) :
                    \A f \in FieldSet :
                        /\ i <= Len(snap'[c][f])
                        /\ snap'[c][f][i] = Project(f, added[k])]_vars

\* two polling threads are alive, samples were evicted, and get_data
\* returned a window in which a reading carries a later timestamp than its
\* place among the readings
C5_Witness ==
    \E c \in Callers :
        /\ cpc[c] = "hold"
        /\ Cardinality(Live) = 2
        /\ Len(snap[c]["timestamps"]) = max_samples
        /\ snap[c]["timestamps"][1] > 1
        /\ \E i \in 1..max_samples :
              snap[c]["pressures"][i] # 10 * snap[c]["timestamps"][i]

\* Thread objects start() has constructed
Created == {t \in Threads : tpc[t] # "unborn"}

\* C6: at most one thread executes polling_loop at any time.
C6_SingleWriter == Cardinality(Live) <= 1

\* C7: a start() call that finds the running flag set returns at once and
\* changes neither the flag nor self.thread nor any Thread object nor the
\* buffer; and as long as stop() was never called and no two start() calls
\* overlapped, however many start() calls were made, at most one Thread
\* object exists.
C7_StartIdempotent ==
    /\ [](soloStarts >= 0 => Cardinality(Created) <= 1)
    /\ [][\A c \in Callers :
            (cpc[c] = "start_check" /\ running /\ cpc'[c] # "start_check") =>
                /\ cpc'[c] = "idle"
                /\ UNCHANGED << running, thread, tpc, lock, buf, clock >>]_vars

\* two start() calls have returned, one polling thread runs and has added a
\* sample
C7_Witness ==
    /\ soloStarts = 2
    /\ Cardinality(Live) = 1
    /\ Cardinality(Created) = 1
    /\ clock >= 1

\* C8: between the return of a stop() call and the next start() call no
\* deque changes.
C8_NoAppendAfterStop == [][phase = "stopped" => buf' = buf]_vars

\* the add_sample calls that have completed
Committed == clock - Cardinality(Appending)

\* C9: when a stop() has returned the running flag is clear, so that the
\* next start() takes its launching branch; once that start() has returned,
\* the flag is set and a polling thread is executing; and from then on,
\* unless stop() is called again, a further sample is eventually appended.
C9_Resumes ==
    /\ [](phase = "stopped" => ~running)
    /\ [](phase = "resumed" => (running /\ Live # {}))
    /\ \A n \in 0..(MaxCalls - 1) :
          (phase = "resumed" /\ Committed = n) ~>
              (Committed > n \/ phase # "resumed")

\* after start(), stop(), start() the thread of the second start() has just
\* appended a sample
C9_Witness ==
    /\ phase = "resumed"
    /\ tpc["t2"] = "log"

\* C10: a stop() that waits in join for a polling thread that is blocked in
\* a sensor read or in one of its sleeps can always proceed (the join times
\* out); from the join stop() goes on to the cleanup and from the cleanup
\* it returns, and it never ends in an exception.
C10_StopReturns ==
    /\ [](\A c \in Callers :
             (cpc[c] = "stop_wait" /\ tpc[ctarget[c]] \in {"read", "sleep", "backoff"})
                 => ENABLED StopWait(c))
    /\ [](\A c \in Callers : cpc[c] # "raise")
    /\ [][\A c \in Callers :
             /\ (cpc[c] = "stop_wait" /\ cpc'[c] # "stop_wait")
                    => cpc'[c] = "stop_cleanup"
             /\ (cpc[c] = "stop_cleanup" /\ cpc'[c] # "stop_cleanup")
                    => cpc'[c] = "idle"]_vars

\* stop() has returned although the polling thread it joined is still
\* blocked in its read or sleep: the join timed out
C10_Witness ==
    /\ phase = "stopped"
    /\ cpc["main"] = "idle"
    /\ \E t \in Live : tpc[t] \in {"read", "sleep", "backoff"}

\* the positions of a caller inside stop()
StopStates == {"stop_if", "stop_join", "stop_wait", "stop_cleanup"}

\* C11: stop() never ends in an exception, whether no start() was ever
\* called or a stop() has just returned; while it executes the running flag
\* is False; none of its statements changes a deque, self.thread or a
\* Thread object; and a stop() called when the previous lifecycle call was
\* a stop() leaves the flag as that one left it.
C11_StopIdempotent ==
    /\ [](\A c \in Callers : cpc[c] # "raise")
    /\ [](\A c \in Callers : cpc[c] \in StopStates => ~running)
    /\ [][\A c \in Callers :
             (cpc[c] \in StopStates /\ cpc'[c] # cpc[c]) =>
                 /\ cpc'[c] \in StopStates \cup {"idle"}
                 /\ UNCHANGED << running, thread, buf, tpc, lock >>]_vars
    /\ [][\A c \in Callers :
             (cpc[c] = "idle" /\ cpc'[c] = "stop_if" /\ phase \in {"idle", "stopped"}) =>
                 /\ ~running
                 /\ UNCHANGED << running, thread, buf, tpc, lock >>]_vars

\* a second stop() in a row, after a start(), has reached its cleanup
C11_Witness ==
    /\ phase = "stopped"
    /\ cpc["main"] = "stop_cleanup"
    /\ Created # {}

\* the last element of a non-empty sequence
Last(q) == q[Len(q)]
\* request threads that hold the dict sensor_manager.get_data() returned
Holders == {c \in Callers : cpc[c] = "hold"}

\* C12: whenever get_data returned a non-empty dict, get_stats computed
\* from it returns statistics (it does not raise), and for every metric
\* current is the last value of the returned sequence, min and max are its
\* least and greatest values and avg is its sum divided by its length.
C12_StatsOverWindow ==
    \A c \in Holders :
        snap[c]["timestamps"] # << >> =>
            LET st == get_stats(snap[c])
            IN  /\ ~Raised(st)
                /\ st # NoData
                /\ st.sample_count = Len(snap[c]["timestamps"])
                /\ \A k \in KeySet :
                      LET values == snap[c][StatsField(k)]
                          m == st.metrics[k]
                      IN  /\ m.current = Last(values)
                          /\ \E i \in 1..Len(values) : m.min = values[i]
                          /\ \A i \in 1..Len(values) : m.min <= values[i]
                          /\ \E i \in 1..Len(values) : m.max = values[i]
                          /\ \A i \in 1..Len(values) : m.max >= values[i]
                          /\ m.avg.num = SeqSum(values)
                          /\ m.avg.den = Len(values)

\* C13: whenever get_data returned the dict of an empty store, get_stats
\* returns the "no data" answer with sample_count 0, and neither it nor
\* calc_stats on any of the empty sequences raises.
C13_NoData ==
    \A c \in Holders :
        snap[c]["timestamps"] = << >> =>
            /\ get_stats(snap[c]) = NoData
            /\ get_stats(snap[c]).sample_count = 0
            /\ ~Raised(get_stats(snap[c]))
            /\ \A k \in KeySet : ~Raised(calc_stats(snap[c][StatsField(k)]))

\* a request thread holds the dict of the still empty store while a polling
\* thread is running
C13_Witness ==
    /\ cpc["web"] = "hold"
    /\ snap["web"]["timestamps"] = << >>
    /\ Live # {}

\* C14: whenever get_data returned a non-empty dict, get_stats computed
\* from it reports, for every metric, a current value equal to the last
\* element of that metric's sequence in the dict.
C14_CurrentIsLast ==
    \A c \in Holders :
        snap[c]["timestamps"] # << >> =>
            LET st == get_stats(snap[c])
            IN  /\ "metrics" \in DOMAIN st
                /\ \A k \in KeySet :
                      st.metrics[k].current = Last(snap[c][StatsField(k)])

\* C15: as long as every read_sensors call so far has failed, every deque
\* is empty, every dict get_data returned is empty and get_stats answers
\* "no data" on it, no polling thread is inside add_sample or past it; and
\* while the running flag is set no polling thread has left its loop.
C15_AllReadsFail ==
    /\ Oks = 0 =>
          /\ buf = EmptyBuffers
          /\ added = << >>
          /\ get_stats(buf) = NoData
          /\ \A c \in Holders : snap[c] = EmptyBuffers /\ get_stats(snap[c]) = NoData
          /\ \A t \in Threads :
                tpc[t] \in {"unborn", "created", "check", "read", "sleep"}
    /\ running => \A t \in Threads : tpc[t] # "done"

\* the sensor source has failed MaxFails times and never succeeded, a
\* request thread holds a dict get_data returned, and the polling thread
\* is at its next read
C15_Witness ==
    /\ Oks = 0
    /\ Fails = MaxFails
    /\ cpc["web"] = "hold"
    /\ \E t \in Threads : tpc[t] = "read"

\* the reading of the k-th successful read_sensors call
Reading(k) == read_sensors(read_all(k))
\* a step in which a read_sensors call fails
FailStep == outcomes' = Append(outcomes, "fail")

\* C16: a failed read_sensors call ends its cycle without an append: the
\* thread goes to its wait holding no data and no deque changes; the number
\* of add_sample calls begun is the number of successful reads; every
\* sample the deques retain is the complete reading of a successful read;
\* and after one failure followed by one success, once the sample is
\* appended, every deque holds exactly the one entry of that reading.
C16_FailThenSucceed ==
    /\ [][FailStep =>
            /\ buf' = buf /\ added' = added /\ clock' = clock
            /\ \E t \in Threads :
                  /\ tpc[t] = "read" /\ tpc'[t] \in {"sleep", "backoff"}
                  /\ ~Truthy(tdata'[t])]_vars
    /\ [](/\ Reads = Oks
          /\ \A i \in 1..Len(added) :
                /\ added[i].t \in 1..Oks
                /\ added[i].data = Reading(added[i].t)
          /\ Appending = {} => buf = Expected(added))
    /\ []((outcomes = << "fail", "ok" >> /\ Committed = 1) =>
            buf = Expected(<< [t |-> 1, data |-> Reading(1)] >>))

\* one failed read, then one successful read whose sample is appended and
\* returned by get_data
C16_Witness ==
    /\ outcomes = << "fail", "ok" >>
    /\ Committed = 1
    /\ cpc["web"] = "hold"
    /\ snap["web"] = Expected(<< [t |-> 1, data |-> Reading(1)] >>)

\* C17: after a read_sensors call that failed, and after an exception
\* raised inside the cycle, the polling thread's next wait is
\* time.sleep(5); and from that wait it returns to the loop test.
C17_BackoffAfterFailure ==
    /\ [][FailStep =>
            \E t \in Threads : tpc[t] = "read" /\ tpc'[t] = "backoff"]_vars
    /\ [][\A t \in Threads :
            (tpc[t] = "log" /\ LogRaises(tdata[t]) /\ tpc'[t] # "log") =>
                tpc'[t] = "backoff"]_vars
    /\ [][\A t \in Threads :
            (tpc[t] = "backoff" /\ tpc'[t] # "backoff") => tpc'[t] = "check"]_vars

\* the most recent read_sensors call failed
Failing == outcomes # << >> /\ Last(outcomes) = "fail"

\* C18: a step in which read_sensors fails changes no deque; from a state
\* in which the most recent read has failed, every step other than a
\* successful read leaves all deques as they are, equal to the samples of
\* the successful reads before; and a dict get_data returns in such a state
\* is that same buffer.
C18_LastKnownGood ==
    /\ [][FailStep => (buf' = buf /\ added' = added)]_vars
    /\ [][(Failing /\ Failing') =>
            /\ buf' = buf
            /\ added' = added
            /\ buf = Expected(added)]_vars
    /\ [][\A c \in Callers : (Returns(c) /\ Failing) =>
            snap'[c] = Expected(added)]_vars

\* a successful read, then MaxFails failed reads; the deques still hold the
\* one sample and a request thread holds a dict with exactly that sample
C18_Witness ==
    /\ Oks = 1
    /\ Fails = MaxFails
    /\ outcomes[1] = "ok"
    /\ buf = Expected(<< [t |-> 1, data |-> Reading(1)] >>)
    /\ cpc["web"] = "hold"
    /\ snap["web"] = buf

\* C19: a polling thread leaves its loop only at the loop test, and only
\* when the running flag is clear; a read that fails inside read_sensors
\* leads to the interval wait and an exception raised by the log call to
\* the 5-second wait; from either wait the thread returns to the loop test,
\* from the loop test with the flag set it goes to the next read, and in
\* none of these positions is it stuck.
C19_LoopSurvivesFaults ==
    /\ [][\A t \in Threads :
            (tpc[t] # "done" /\ tpc'[t] = "done") =>
                (tpc[t] = "check" /\ ~running)]_vars
    /\ [][\A t \in Threads :
            (tpc[t] = "read" /\ tpc'[t] # "read" /\ ~Truthy(tdata'[t])) =>
                tpc'[t] = "sleep"]_vars
    /\ [][\A t \in Threads :
            (tpc[t] = "log" /\ LogRaises(tdata[t]) /\ tpc'[t] # "log") =>
                tpc'[t] = "backoff"]_vars
    /\ [][\A t \in Threads :
            (tpc[t] \in {"sleep", "backoff"} /\ tpc'[t] # tpc[t]) =>
                tpc'[t] = "check"]_vars
    /\ [][\A t \in Threads :
            (tpc[t] = "check" /\ running /\ tpc'[t] # "check") =>
                tpc'[t] = "read"]_vars
    /\ [](\A t \in Threads :
            tpc[t] \in {"check", "log", "display", "sleep", "backoff"} =>
                ENABLED Step(t))

\* the only polling thread appended a reading with a None temperature, so
\* its log call raised; the flag is set and the thread is at its next read
C19_Witness ==
    /\ Created = {"t1"}
    /\ running
    /\ tpc["t1"] = "read"
    /\ added # << >>
    /\ Last(added).data["temperature"] = None

\* C20: a reading in which some driver reported nothing is still passed to
\* add_sample, and neither the dict add_sample is given nor any deque ever
\* holds None: a missing value is stored as 0.
C20_ZeroDefaults ==
    /\ \A t \in Threads :
          tpc[t] \in {"add_sample", "append"} =>
              /\ Truthy(tdata[t])
              /\ \A k \in KeySet : tdata[t][k] # None
    /\ \A f \in FieldSet : ~HasNone(buf[f])


\* ------------------------------------------------- direct use of the store
\* One client calls add_sample and get_data itself, one call after the
\* other, with no polling thread running; every call runs to its end.

\* the readings the client passes to add_sample: {} and None, a reading of
\* zeros, a complete reading, and one that has only the temperature key
ArgKinds == {"empty", "none", "zeros", "full", "partial"}
Argument(kind) ==
    CASE kind = "empty"   -> << >>
      [] kind = "none"    -> NoneDict
      [] kind = "zeros"   -> [k \in KeySet |-> 0]
      [] kind = "full"    -> [k \in KeySet |-> 7]
      [] kind = "partial" -> [temperature |-> 7]

\* add_sample, from its i-th append on: data[key] of a missing key raises
\* KeyError out of the `with` block, after the appends made before it
RECURSIVE AppendFrom(_, _, _, _)
AppendFrom(b, data, now, i) ==
    IF i > Len(Fields) THEN [buf |-> b, raised |-> FALSE]
    ELSE IF i > 1 /\ Keys[i - 1] \notin DOMAIN data
           THEN [buf |-> b, raised |-> TRUE]
    ELSE AppendFrom([b EXCEPT ![Fields[i]] =
                        DequeAppend(@, IF i = 1 THEN now ELSE data[Keys[i - 1]])],
                    data, now, i + 1)

\* add_sample(data) as one call: `if not data: return`, then the appends
add_sample(b, data, now) ==
    IF ~Truthy(data) THEN [buf |-> b, raised |-> FALSE]
                     ELSE AppendFrom(b, data, now, 1)

\* the client calls add_sample(Argument(kind))
ApiAddSample(kind) ==
    /\ clock < MaxCalls
    /\ LET data == Argument(kind)
           r    == add_sample(buf, data, clock + 1)
       IN  /\ buf' = r.buf
           /\ clock' = IF Truthy(data) THEN clock + 1 ELSE clock
           /\ added' = IF Truthy(data) /\ ~r.raised
                         THEN Window(Append(added, [t |-> clock + 1, data |-> data]))
                         ELSE added
           /\ api' = [api EXCEPT !.op = "add_sample", !.arg = kind,
                                 !.raised = r.raised]
    /\ UNCHANGED << config, current, running, thread, lock, threadVars, callerVars, history >>

\* get_data() as one call: the dict of the twelve list(...) copies
get_data(b) == [f \in FieldSet |-> ListCopy(b[f])]

\* the elements of a sequence object the client holds
Items(f) == IF api.ret[f].own THEN api.ret[f].items ELSE buf[f]

\* the client calls get_data() and keeps the dict
ApiGetData ==
    /\ api' = [api EXCEPT !.op = "get_data", !.arg = "none", !.raised = FALSE,
                          !.ret = get_data(buf)]
    /\ UNCHANGED << config, current, running, thread, lock, buf, clock, threadVars,
                    callerVars, added, history >>

\* the client appends to a sequence of the dict it holds: the append goes to
\* the object that sequence is
ApiMutate(f) ==
    /\ Len(Items(f)) <= max_samples
    /\ IF api.ret[f].own
         THEN /\ api' = [api EXCEPT !.op = "mutate", !.arg = f, !.raised = FALSE,
                                    !.ret[f].items = Append(@, None)]
              /\ buf' = buf
         ELSE /\ api' = [api EXCEPT !.op = "mutate", !.arg = f, !.raised = FALSE]
              /\ buf' = [buf EXCEPT ![f] = DequeAppend(@, None)]
    /\ UNCHANGED << config, current, running, thread, lock, clock, threadVars,
                    callerVars, added, history >>

ApiNext ==
    \/ \E kind \in ArgKinds : ApiAddSample(kind)
    \/ ApiGetData
    \/ \E f \in {"timestamps", "pm10"} : ApiMutate(f)

ApiSpec == Init /\ [][ApiNext]_vars


\* C21: add_sample accepts every reading: a call with an empty or a
\* zero-filled reading does not raise and records one sample, so that every
\* sequence grows by one, or stays at max_samples when it was full.
C21_EveryReadingRecorded ==
    [][(api'.op = "add_sample" /\ api'.arg \in {"empty", "zeros"})
         => /\ ~api'.raised
            /\ \A f \in FieldSet :
                 Len(buf'[f]) = IF Len(buf[f]) < max_samples THEN Len(buf[f]) + 1
                                ELSE max_samples]_vars

\* C22: whatever reading add_sample was called with, once the call has
\* returned or raised all twelve sequences have the same length.
C22_AllOrNothing ==
    api.op = "add_sample"
      => \A f \in FieldSet : Len(buf[f]) = Len(buf["timestamps"])


\* C24: the dict get_data() returned is the client's own copy: an add_sample
\* call made afterwards leaves the elements of every returned sequence as
\* they were, and an append the client makes to a returned sequence leaves
\* the buffer as it was.
C24_SnapshotOwned ==
    [][/\ api'.op = "add_sample" => \A f \in FieldSet : Items(f)' = Items(f)
       /\ api'.op = "mutate" => buf' = buf]_vars

\* a snapshot taken after the first sample, then a second add_sample, then
\* the client's append to the returned timestamps
C24_Witness ==
    /\ api.op = "mutate"
    /\ Len(buf["timestamps"]) = 2
    /\ Len(Items("pm10")) = 1
    /\ Len(Items("timestamps")) = 2
    /\ Items("timestamps") # buf["timestamps"]


\* ------------------------------------------------- the observed LCD display
\* where an exception raised while drawing takes the thread: display_on_lcd
\* has its whole body in `try: ... except Exception`, which logs the error
\* and returns, so polling_loop goes on to time.sleep(self.polling_interval)
LcdUncaught == ExceptBranch
LcdExcept == "sleep"

\* polling_loop: display_on_lcd drew the reading (or returned at once, with
\* no LCD), and the outcome is recorded
ObservedDisplayOk(t) ==
    /\ tpc[t] = "display"
    /\ tpc' = [tpc EXCEPT ![t] = "sleep"]
    /\ tdata' = [tdata EXCEPT ![t] = NoneDict]
    /\ tnow' = [tnow EXCEPT ![t] = 0]
    /\ outcomes' = Append(outcomes, "shown")
    /\ UNCHANGED << config, api, current >>
    /\ UNCHANGED << running, thread, lock, buf, clock, tidx,
                    callerVars, added, phase, soloStarts >>

\* polling_loop: drawing or self.lcd.display(img) raised inside
\* display_on_lcd, and the outcome is recorded
ObservedDisplayFault(t) ==
    /\ tpc[t] = "display"
    /\ tpc' = [tpc EXCEPT ![t] = LcdExcept]
    /\ tdata' = [tdata EXCEPT ![t] = NoneDict]
    /\ tnow' = [tnow EXCEPT ![t] = 0]
    /\ outcomes' = Append(outcomes, "lcd_fault")
    /\ UNCHANGED << config, api, current >>
    /\ UNCHANGED << running, thread, lock, buf, clock, tidx,
                    callerVars, added, phase, soloStarts >>

\* the store started by the main thread and not stopped, a request thread
\* calling get_data, and an LCD whose every update may fail
LcdNext ==
    \/ \E t \in Threads : LoopCheck(t)
    \/ \E t \in Threads : ReadOk(t)
    \/ \E t \in Threads : AddSampleEnter(t)
    \/ \E t \in Threads : AppendNext(t)
    \/ \E t \in Threads : LogSample(t)
    \/ \E t \in Threads : ObservedDisplayOk(t)
    \/ \E t \in Threads : ObservedDisplayFault(t)
    \/ \E t \in Threads : SleepInterval(t)
    \/ \E t \in Threads : SleepBackoff(t)
    \/ CallStart("main")
    \/ StartTest("main")
    \/ StartSet("main")
    \/ StartNew("main")
    \/ StartGo("main")
    \/ CallGetData("web")
    \/ GetDataEnter("web")
    \/ CopyNext("web")
    \/ DropData("web")

LcdSpec == Init /\ [][LcdNext]_vars

\* the display_on_lcd call of this step failed
LcdFaultStep == outcomes' = Append(outcomes, "lcd_fault")

\* C23: a failing display_on_lcd call changes nothing in the buffer, leaves
\* the sample of its cycle as the newest one recorded, raises nothing into
\* polling_loop (the thread does not go to the except branch nor end), and
\* the thread goes on to the polling_interval sleep.
C23_DisplayFaultContained ==
    [][LcdFaultStep =>
         /\ buf' = buf
         /\ \A t \in Threads :
              tpc[t] = "display" =>
                /\ tpc'[t] = "sleep"
                /\ \A f \in FieldSet : Len(buf'[f]) = Len(buf'["timestamps"])
                /\ Last(buf'["timestamps"]) = tnow[t]
                /\ \A i \in 2..Len(Fields) :
                     Last(buf'[Fields[i]]) = tdata[t][Keys[i - 1]]]_vars

\* the display failed on the first sample and the thread, after the
\* polling_interval sleep, is at its next read with the sample recorded
C23_Witness ==
    /\ Len(outcomes) = 1
    /\ outcomes[1] = "lcd_fault"
    /\ \E t \in Threads : tpc[t] = "read"
    /\ Len(buf["timestamps"]) = 1
    /\ clock = 1


\* C25: no step of the store (start, stop, the polling loop with its
\* add_sample, get_data) changes max_samples or polling_interval, and the
\* capacity of every sequence stays max_samples: no sequence grows beyond it
\* and a sequence that has reached it keeps that length.
C25_ConfigFixed ==
    [][/\ config' = config
       /\ config = Constructed
       /\ \A f \in FieldSet :
            /\ Len(buf'[f]) <= config'.max_samples
            /\ Len(buf[f]) = config.max_samples
                 => Len(buf'[f]) = config'.max_samples]_vars

\* more samples were added than the sequences hold, a snapshot was taken and
\* the store was stopped
C25_Witness ==
    /\ clock > max_samples
    /\ \A f \in FieldSet : Len(buf[f]) = max_samples
    /\ phase = "stopped"
    /\ cpc["web"] = "hold"
    /\ config = Constructed


\* ------------------------------------------------ the baseline (app.py)
\* SensorDataManager of app.py: four deques, a SenseHat that may be absent,
\* and a polling loop that appends whatever read_sensors returns.  One
\* Thread object is started, and stopped at any time.

\* app.py __init__: self.sensor is the SenseHat or None
BaseConstructed(sensor) ==
    [max_samples |-> max_samples, polling_interval |-> 600, sensor |-> sensor]

BaseFields == << "timestamps", "temperatures", "pressures", "humidities" >>

\* _get_mock_data(): values drawn around 20, 1013 and 50
MockTemps == {18, 20, 22}
MockData(x) == [temp |-> x, pressure |-> 1013, humidity |-> 50]
\* the k-th reading of the SenseHat
HatData(k) == [temp |-> 10 * k, pressure |-> 10 * k, humidity |-> 10 * k]

\* read_sensors, the except branch: `return self._get_mock_data()`
BaseExceptNone(mock) == NoneDict
BaseExcept(mock) == mock

\* app.py read_sensors(): the SenseHat's values, or mock data when there is
\* no SenseHat or when reading it raised
BaseReadSensors(sensor, raises, hat, mock) ==
    IF sensor = "none" THEN mock
    ELSE IF raises THEN BaseExcept(mock)
    ELSE hat

BaseInit ==
    /\ running = FALSE
    /\ thread = "none"
    /\ lock = "free"
    /\ buf = EmptyBuffers
    /\ clock = 0
    /\ tpc = [t \in Threads |-> "unborn"]
    /\ tdata = [t \in Threads |-> NoneDict]
    /\ tnow = [t \in Threads |-> 0]
    /\ tidx = [t \in Threads |-> 0]
    /\ cpc = [c \in Callers |-> "idle"]
    /\ cidx = [c \in Callers |-> 0]
    /\ ctarget = [c \in Callers |-> "none"]
    /\ snap = [c \in Callers |-> EmptyBuffers]
    /\ added = << >>
    /\ phase = "idle"
    /\ soloStarts = 0
    /\ outcomes = << >>
    /\ \E sensor \in {"SenseHat", "none"} : config = BaseConstructed(sensor)
    /\ current = NoCurrent
    /\ api = NoCall

\* app.py start(), called once: sets the flag, creates and starts the thread
BaseStart ==
    /\ thread = "none"
    /\ ~running
    /\ running' = TRUE
    /\ thread' = ThreadOrder[1]
    /\ tpc' = [tpc EXCEPT ![ThreadOrder[1]] = "check"]
    /\ phase' = "active"
    /\ UNCHANGED << config, current, api, lock, buf, clock, tdata, tnow, tidx,
                    callerVars, added, soloStarts, outcomes >>

\* app.py stop(): clears the flag; join(timeout=5) returns when the thread
\* has ended or the five seconds are over
BaseStop ==
    /\ thread # "none"
    /\ running
    /\ running' = FALSE
    /\ phase' = "stopped"
    /\ UNCHANGED << config, current, api, thread, lock, buf, clock, threadVars,
                    callerVars, added, soloStarts, outcomes >>

\* app.py polling_loop: `temp, pressure, humidity = self.read_sensors()`;
\* unpacking anything but the three values raises into the except branch
BaseRead(t) ==
    /\ tpc[t] = "read"
    /\ Len(outcomes) < MaxCalls
    /\ \E raises \in BOOLEAN, x \in MockTemps :
         LET r == BaseReadSensors(config.sensor, raises,
                                  HatData(Len(outcomes) + 1), MockData(x))
             src == IF config.sensor = "none" THEN "absent"
                    ELSE IF raises THEN "raised" ELSE "hat"
         IN  /\ tdata' = [tdata EXCEPT ![t] = r]
             /\ tpc' = [tpc EXCEPT ![t] = IF IsNoneDict(r) THEN ExceptBranch
                                          ELSE "add_sample"]
             /\ outcomes' = Append(outcomes, [src |-> src, data |-> r])
    /\ UNCHANGED << config, current, api, running, thread, lock, buf, clock,
                    tnow, tidx, callerVars, added, phase, soloStarts >>

\* app.py add_sample(temp, pressure, humidity): under the lock, the four
\* appends and the three current values
BaseAddSample(t) ==
    /\ tpc[t] = "add_sample"
    /\ lock = "free"
    /\ clock' = clock + 1
    /\ buf' = [f \in FieldSet |->
                 CASE f = "timestamps"   -> DequeAppend(buf[f], clock + 1)
                   [] f = "temperatures" -> DequeAppend(buf[f], tdata[t].temp)
                   [] f = "pressures"    -> DequeAppend(buf[f], tdata[t].pressure)
                   [] f = "humidities"   -> DequeAppend(buf[f], tdata[t].humidity)
                   [] OTHER              -> buf[f]]
    /\ current' = tdata[t]
    /\ tpc' = [tpc EXCEPT ![t] = "print"]
    /\ UNCHANGED << config, api, running, thread, lock, tdata, tnow, tidx,
                    callerVars, added, history >>

\* app.py polling_loop: the print of the three values, each a number
BasePrint(t) ==
    /\ tpc[t] = "print"
    /\ tpc' = [tpc EXCEPT ![t] = "sleep"]
    /\ tdata' = [tdata EXCEPT ![t] = NoneDict]
    /\ UNCHANGED << config, current, api, running, thread, lock, buf, clock,
                    tnow, tidx, callerVars, added, history >>

BaseNext ==
    \/ BaseStart
    \/ BaseStop
    \/ \E t \in Threads : LoopCheck(t)
    \/ \E t \in Threads : BaseRead(t)
    \/ \E t \in Threads : BaseAddSample(t)
    \/ \E t \in Threads : BasePrint(t)
    \/ \E t \in Threads : SleepInterval(t)

BaseSpec == BaseInit /\ [][BaseNext]_vars

\* the reading of the cycle in progress or last completed
LastRead == outcomes[Len(outcomes)]

\* C26: in app.py every acquisition cycle appends exactly one sample: the
\* number of samples appended is the number of reads made (less the one
\* whose add_sample is about to run), the sample appended is the reading of
\* that cycle, and when there is no SenseHat or reading it raised that
\* reading is the synthetic one.
C26_BaselineAlwaysAppends ==
    [][/\ clock' + Cardinality({t \in Threads : tpc'[t] = "add_sample"})
            = Len(outcomes')
       /\ \A t \in Threads : tpc'[t] \notin {"backoff"}
       /\ clock' # clock =>
            /\ clock' = clock + 1
            /\ \A i \in 1..Len(BaseFields) :
                 Len(buf'[BaseFields[i]]) =
                   IF clock < max_samples THEN clock + 1 ELSE max_samples
            /\ Last(buf'["temperatures"]) = LastRead.data.temp
            /\ Last(buf'["pressures"]) = LastRead.data.pressure
            /\ Last(buf'["humidities"]) = LastRead.data.humidity
            /\ LastRead.src \in {"absent", "raised"}
                 => \E x \in MockTemps : LastRead.data = MockData(x)]_vars

\* the SenseHat read raised in the first cycle and succeeded in the second,
\* and both cycles have appended their sample
C26_Witness ==
    /\ Len(outcomes) = 2
    /\ outcomes[1].src = "raised"
    /\ outcomes[2].src = "hat"
    /\ buf["temperatures"] = << outcomes[1].data.temp, 20 >>
    /\ \E t \in Threads : tpc[t] = "sleep"


\* ------------------------------------------- the sensors by themselves
\* EnviroSensors as the test scripts use it: constructed once, then
\* read_all() and the formatting of what it returned, in turn.

Devices == {"bme280", "ltr559", "gas_sensor", "pms5003"}
\* the device each read_* method reads
DeviceOf ==
    [temperature |-> "bme280", pressure |-> "bme280", humidity |-> "bme280",
     light |-> "ltr559", proximity |-> "ltr559", gas |-> "gas_sensor",
     particulates |-> "pms5003"]
ReadAllKeys == DOMAIN DeviceOf
GasKeys == {"oxidising", "reducing", "nh3"}
PmKeys == {"pm1", "pm2_5", "pm10"}

\* EnviroSensors.__init__: with use_mock, or when the libraries cannot be
\* imported, no device is set and use_mock is True; otherwise the gas module
\* is set and each other device that initialised
DriverConstructed(use_mock, imported, found) ==
    IF use_mock \/ ~imported
      THEN [use_mock |-> TRUE, devices |-> {}]
      ELSE [use_mock |-> FALSE, devices |-> found \cup {"gas_sensor"}]

\* `if self.use_mock or not self.<device>:`
Mocked(cfg, key) == cfg.use_mock \/ DeviceOf[key] \notin cfg.devices

\* the mock dict of read_gas / read_particulates
MockGroupNone(names, m) == NoneDict
MockGroup(names, m) == [n \in names |-> m]

\* read_temperature, read_pressure, read_humidity, read_light,
\* read_proximity: a mock number, the device's value, or None when the
\* device raised
ReadScalar(cfg, key, faults, v, m) ==
    IF Mocked(cfg, key) THEN m
    ELSE IF DeviceOf[key] \in faults THEN None
    ELSE v

\* read_gas, read_particulates: a mock dict, the device's values, or None
ReadGroup(cfg, key, names, faults, v, m) ==
    IF Mocked(cfg, key) THEN MockGroup(names, m)
    ELSE IF DeviceOf[key] \in faults THEN NoneDict
    ELSE [n \in names |-> v]

\* EnviroSensors.read_all() when the devices in `faults` raise
DriverReadAll(cfg, faults, v, m) ==
    [temperature  |-> ReadScalar(cfg, "temperature", faults, v, m),
     pressure     |-> ReadScalar(cfg, "pressure", faults, v, m),
     humidity     |-> ReadScalar(cfg, "humidity", faults, v, m),
     light        |-> ReadScalar(cfg, "light", faults, v, m),
     proximity    |-> ReadScalar(cfg, "proximity", faults, v, m),
     gas          |-> ReadGroup(cfg, "gas", GasKeys, faults, v, m),
     particulates |-> ReadGroup(cfg, "particulates", PmKeys, faults, v, m)]

\* the mock values of one read_all() call
MockValues == {20, 22}

\* the test scripts' prints of a reading: '{:.1f}' of a None, and a subscript
\* of a None, raise TypeError
FormatRaises(d) ==
    \/ d.temperature = None
    \/ d.humidity = None
    \/ IsNoneDict(d.particulates)
    \/ d.particulates["pm2_5"] = None

DriverInit ==
    /\ running = FALSE
    /\ thread = "none"
    /\ lock = "free"
    /\ buf = EmptyBuffers
    /\ clock = 0
    /\ tpc = [t \in Threads |-> "unborn"]
    /\ tdata = [t \in Threads |-> NoneDict]
    /\ tnow = [t \in Threads |-> 0]
    /\ tidx = [t \in Threads |-> 0]
    /\ cpc = [c \in Callers |-> "idle"]
    /\ cidx = [c \in Callers |-> 0]
    /\ ctarget = [c \in Callers |-> "none"]
    /\ snap = [c \in Callers |-> EmptyBuffers]
    /\ added = << >>
    /\ phase = "idle"
    /\ soloStarts = 0
    /\ outcomes = << >>
    /\ \E use_mock \in BOOLEAN, imported \in BOOLEAN,
          found \in SUBSET (Devices \ {"gas_sensor"}) :
         config = DriverConstructed(use_mock, imported, found)
    /\ current = NoCurrent
    /\ api = NoCall

\* the script calls sensors.read_all()
TestReadAll ==
    /\ Len(outcomes) < MaxCalls
    /\ ~api.raised
    /\ \E faults \in SUBSET Devices, m \in MockValues :
         api' = [op |-> "read_all", arg |-> faults, raised |-> FALSE,
                 ret |-> DriverReadAll(config, faults, 10 * (Len(outcomes) + 1), m)]
    /\ outcomes' = Append(outcomes, "read_all")
    /\ UNCHANGED << config, current, running, thread, lock, buf, clock,
                    threadVars, callerVars, added, phase, soloStarts >>

\* the script prints the reading
TestFormat ==
    /\ api.op = "read_all"
    /\ api' = [api EXCEPT !.op = "format", !.raised = FormatRaises(api.ret)]
    /\ UNCHANGED << config, current, running, thread, lock, buf, clock,
                    threadVars, callerVars, added, history >>

DriverNext ==
    \/ TestReadAll
    \/ TestFormat

DriverSpec == DriverInit /\ [][DriverNext]_vars

\* C27: read_all() returns a mapping with exactly the seven keys; in mock
\* mode each of the five scalar values is a number, gas and particulates are
\* complete mappings of numbers, and formatting the reading does not raise.
C27_ReadAllShape ==
    api.op \in {"read_all", "format"} =>
      /\ DOMAIN api.ret = {"temperature", "pressure", "humidity", "light",
                           "proximity", "gas", "particulates"}
      /\ config.use_mock =>
           /\ \A k \in {"temperature", "pressure", "humidity", "light", "proximity"} :
                api.ret[k] # None
           /\ DOMAIN api.ret.gas = {"oxidising", "reducing", "nh3"}
           /\ DOMAIN api.ret.particulates = {"pm1", "pm2_5", "pm10"}
           /\ \A n \in DOMAIN api.ret.gas : api.ret.gas[n] # None
           /\ \A n \in DOMAIN api.ret.particulates : api.ret.particulates[n] # None
           /\ ~api.raised

\* in mock mode the second reading has been read and printed
C27_Witness ==
    /\ config.use_mock
    /\ api.op = "format"
    /\ Len(outcomes) = 2
    /\ api.ret.gas # NoneDict


\* C28: a cycle that has appended its sample does not end in the 5-second
\* backoff: from the append on, the thread's next wait is the
\* polling_interval sleep.
C28_AppendThenInterval ==
    [][\A t \in Threads :
         (tpc[t] \in {"log", "display"} /\ tnow[t] # 0) => tpc'[t] # "backoff"]_vars


\* C29: the loop tests the flag before the polling_interval sleep: a thread
\* does not enter that sleep while the running flag is clear.
C29_CheckBeforeSleep ==
    [][\A t \in Threads :
         (tpc[t] # "sleep" /\ tpc'[t] = "sleep") => running]_vars

\* ------------------------------------------------------- halting the loop
\* the program as scheduled (LiveNext), with sensor reads that may fail but
\* always return
HaltNext ==
    \/ LiveNext
    \/ \E t \in Threads : ReadFail(t)

HaltSpec ==
    /\ Init /\ [][HaltNext]_vars
    /\ Fairness
    /\ \A t \in Threads : WF_vars(ReadFail(t))

\* a stop() has cleared the flag and no start() has been called since
Halting == phase \in {"stopping", "stopped"}

\* C30: once stop() has cleared the flag, and unless start() is called
\* again, every polling thread eventually ends; it leaves a sensor read only
\* by that read returning, and it ends only from the loop test, and no step
\* of stop() (from its call to its return) changes a thread's position or
\* its local data.
C30_EventuallyTerminates ==
    /\ \A t \in Threads :
         (Halting /\ t \in Live) ~> (tpc[t] = "done" \/ ~Halting)
    /\ [][\A t \in Threads :
            /\ (tpc[t] = "read" /\ tpc'[t] # "read")
                  => tpc'[t] \in {"add_sample", "sleep"}
            /\ (tpc[t] # "done" /\ tpc'[t] = "done") => tpc[t] = "check"
            /\ (cpc'["main"] # cpc["main"]
                  /\ (cpc["main"] \in StopStates \/ cpc'["main"] \in StopStates))
                  => UNCHANGED threadVars]_vars

\* stop() has returned while the thread was still in its cycle, and the
\* thread has ended since
C30_Witness ==
    /\ phase = "stopped"
    /\ cpc["main"] = "idle"
    /\ tpc["t1"] = "done"
    /\ clock = 1


\* a sequence of timestamps in non-decreasing order
NonDecreasing(q) == \A i, j \in 1..Len(q) : i < j => q[i] <= q[j]

\* C31: the timestamps in the buffer and in every dict get_data returned are
\* in non-decreasing order, and they are in append order: the timestamp an
\* add_sample call appends is the latest one the clock has handed out, also
\* when two polling threads call add_sample.
C31_TimeOrdered ==
    /\ [](NonDecreasing(buf["timestamps"]))
    /\ [](\A c \in Callers : cpc[c] = "hold" => NonDecreasing(snap[c]["timestamps"]))
    /\ [][buf'["timestamps"] # buf["timestamps"] =>
            /\ Last(buf'["timestamps"]) = clock
            /\ \A i \in 1..Len(buf["timestamps"]) : buf["timestamps"][i] < clock]_vars

\* two polling threads are alive, get_data returned the samples two and
\* three, and the thread that added the third has not yet ended its cycle
C31_Witness ==
    /\ Cardinality(Live) = 2
    /\ cpc["web"] = "hold"
    /\ snap["web"]["timestamps"] = << 2, 3 >>
    /\ \E t \in Threads : tpc[t] \in {"log", "display"} /\ tnow[t] = 3


\* ------------------------------------------------------ readers and writer
\* the store started by the main thread and not stopped, sensor reads that
\* may fail, and two request threads calling get_data at any time
Readers == {"web", "aux"}

LockNext ==
    \/ \E t \in Threads : LoopCheck(t)
    \/ \E t \in Threads : ReadOk(t)
    \/ \E t \in Threads : ReadFail(t)
    \/ \E t \in Threads : AddSampleEnter(t)
    \/ \E t \in Threads : AppendNext(t)
    \/ \E t \in Threads : LogSample(t)
    \/ \E t \in Threads : DisplayOnLcd(t)
    \/ \E t \in Threads : SleepInterval(t)
    \/ \E t \in Threads : SleepBackoff(t)
    \/ CallStart("main")
    \/ StartTest("main")
    \/ StartSet("main")
    \/ StartNew("main")
    \/ StartGo("main")
    \/ \E c \in Readers : CallGetData(c)
    \/ \E c \in Readers : GetDataEnter(c)
    \/ \E c \in Readers : CopyNext(c)
    \/ \E c \in Readers : DropData(c)

\* fair scheduling of the steps under the lock: a thread inside the `with`
\* block goes on, and a thread waiting for the lock gets it if the lock is
\* free again and again; a sensor read or a sleep may last for ever
LockFairness ==
    /\ \A t \in Threads : WF_vars(AppendNext(t)) /\ SF_vars(AddSampleEnter(t))
    /\ \A c \in Readers : WF_vars(CopyNext(c)) /\ SF_vars(GetDataEnter(c))

LockSpec == Init /\ [][LockNext]_vars /\ LockFairness

\* C32: every get_data call and every add_sample call gets the lock and
\* runs to its end, and whoever took the lock releases it.
C32_LockReleased ==
    /\ \A c \in Readers : (cpc[c] = "get_data") ~> (cpc[c] = "hold")
    /\ \A t \in Threads : (tpc[t] = "add_sample") ~> (tpc[t] = "log")
    /\ (lock # "free") ~> (lock = "free")

\* a polling thread in add_sample and a request thread in get_data both
\* wait for the lock, which the other request thread holds while copying
C32_Witness ==
    /\ \E t \in Threads : tpc[t] = "add_sample"
    /\ cpc["aux"] = "get_data"
    /\ lock = "web"
    /\ cidx["web"] > 1
    /\ clock >= 1


\* C33: every value in each of the eleven metric sequences is a number,
\* never None, in every reachable state.
C33_MetricsAreNumbers ==
    \A i \in 2..Len(Fields) :
        \A j \in 1..Len(buf[Fields[i]]) : buf[Fields[i]][j] # None

\* C34: from the return of the stop() that released the hardware until the
\* next start() call, no polling thread begins a sensor read or calls
\* display_on_lcd.
C34_QuietAfterRelease ==
    [][phase = "stopped" =>
         \A t \in Threads :
             /\ (tpc[t] = "display" => tpc'[t] = "display")
             /\ (tpc[t] # "read" => tpc'[t] # "read")]_vars

====
